---- MODULE Spec2Model ----
(***************************************************************************)
(* The reactive core of asframework (src/src/framework/reactive.js):       *)
(* Signal, Effect, Computed and the module-level currentEffect slot.       *)
(*                                                                         *)
(* The core is synchronous and re-entrant, so the model is an explicit     *)
(* call stack.  Every method of the source is one action; a frame's pc is  *)
(* the position inside the method (the places where it calls out and is    *)
(* resumed).  The functions handed to createEffect / createComputed are    *)
(* client code: they are small instruction lists, run by BodyStep.         *)
(***************************************************************************)
EXTENDS Integers, Sequences, FiniteSets, TLC

VARIABLES
  scn,            \* the client program under execution (a name in ScnNames)
  value,          \* Signal.value, per cell
  subscribers,    \* Signal.subscribers, per cell: a JS Set, kept in insertion order
  dependencies,   \* Effect.dependencies, per effect: a JS Set, in insertion order
  cleanup,        \* Effect.cleanup, per effect: <<>> (null) or <<v>> (a closure over v)
  currentEffect,  \* the module-level slot (reactive.js:2)
  dirty,          \* Computed.dirty
  computing,      \* Computed.computing
  created,        \* the effects and computeds that have been constructed
  stack,          \* the call stack, innermost frame last
  ret,            \* the value returned by the call that returned last
  exc,            \* the error in flight or caught by the top-level caller, or NoError
  runs,           \* observation: invocations of each body during the current top-level call
  reads,          \* observation: cells whose get() tracked an effect during its latest run
  log,            \* what the client bodies and cleanups pushed (seen.push, log.push)
  hist,           \* observation: the values the top level stored in "a" (traced programs)
  npass,          \* observation: notification passes started during the current top-level call
  destroyed,      \* observation: effects whose destroy() has returned and that have not run since
  call,           \* the top-level call in progress or completed last
  nops,           \* number of top-level calls made after the program's setup
  setupIdx        \* next statement of the program's setup

core == <<value, subscribers, dependencies, cleanup, currentEffect, dirty, computing, created>>
obs  == <<runs, reads, log, hist, npass, destroyed>>
ctl  == <<scn, call, nops, setupIdx>>
vars == <<scn, value, subscribers, dependencies, cleanup, currentEffect, dirty,
          computing, created, stack, ret, exc, runs, reads, log, hist, npass, destroyed,
          call, nops,
          setupIdx>>

(***************************************************************************)
(* Bounds of the exploration.                                              *)
(***************************************************************************)
MaxOps == 4

MaxVal == 2

MaxDepth == 16

StackSlack == 5

Vals == 0 .. MaxVal

(***************************************************************************)
(* The objects.  "ks" is the internal Signal of the Computed "k" and "ke"  *)
(* its internal Effect (reactive.js:92, 100).                              *)
(***************************************************************************)
UserCells == {"a", "b", "c"}

Cells == UserCells \cup {"ks"}

UserEffects == {"e1", "e2", "e3"}

Effects == UserEffects \cup {"ke"}

Computeds == {"k"}

Bodies == Effects \cup Computeds

SignalOf(k) == "ks"

EffectOf(k) == "ke"

ComputedOf(e) == "k"

None == "none"

\* JS undefined, as a value of a cell
Undef == -1

\* the outcome of a function that throws
Raise == -2

NoError == <<>>

\* the error the engine raises when the call stack is exhausted
StackError == <<"RangeError", "">>

\* Return values: undefined, a plain value, a function (a cleanup closing over v),
\* or a truthy value that is not a function.
Undefined == [t |-> "undef", v |-> Undef]

RVal(x) == [t |-> "val", v |-> x]

RFn(x) == [t |-> "fn", v |-> x]

RJunk == [t |-> "junk", v |-> 1]

\* JS truthiness of the modelled values (numbers and undefined)
Truthy(x) == x # 0 /\ x # Undef

(***************************************************************************)
(* Client code.  An instruction is [op, id, n]:                            *)
(*   get c m    acc := c.get()            (m = 1: acc := acc + c.get())    *)
(*   getk k m   acc := k()  (the getter of createComputed), m as above     *)
(*   mul n      acc := acc * n                                             *)
(*   br w n     jump to n when acc is falsy (w = "z"), truthy ("nz"),      *)
(*              or equal to 1 ("one")                                      *)
(*   setc c n   c.set(n)                                                   *)
(*   seta c     c.set(acc)                                                 *)
(*   log        push acc on the shared list                                *)
(*   destroy e  e.destroy()                                                *)
(*   create e   createEffect(body of e), the first time it is reached      *)
(*   throw      throw an Error                                             *)
(*   ret w      return nothing ("none"), acc ("val"), a cleanup closing    *)
(*              over acc ("fn"), or a truthy non-function ("junk")         *)
(***************************************************************************)
I(op, id, n) == [op |-> op, id |-> id, n |-> n]

NoProg == [b \in Bodies |-> <<>>]

\* count(); doubled = createComputed(() => count() * 2);
\* createEffect(() => seen.push(doubled()))              (spec.md section 8)
ProgScenario ==
  [NoProg EXCEPT !["k"]  = <<I("get", "a", 0), I("mul", "", 2), I("ret", "val", 0)>>,
                 !["e1"] = <<I("getk", "k", 0), I("log", "", 0)>>]

\* createComputed(() => a.get() + b.get()), read by an effect and from the top level
ProgSum ==
  [NoProg EXCEPT !["k"]  = <<I("get", "a", 0), I("get", "b", 1), I("ret", "val", 0)>>,
                 !["e1"] = <<I("getk", "k", 0)>>]

\* an effect reading a cell and a computed over the same cell
ProgDiamond ==
  [NoProg EXCEPT !["k"]  = <<I("get", "a", 0), I("mul", "", 2), I("ret", "val", 0)>>,
                 !["e1"] = <<I("get", "a", 0), I("getk", "k", 1)>>]

\* createEffect(() => a.get() ? b.get() : c.get()), beside a plain reader of b and c
ProgCond ==
  [NoProg EXCEPT !["e1"] = <<I("get", "a", 0), I("br", "z", 5), I("get", "b", 0),
                             I("ret", "none", 0), I("get", "c", 0)>>,
                 !["e2"] = <<I("get", "b", 0), I("get", "c", 1)>>]

\* createEffect(() => { const v = x(); log.push('run:' + v);
\*                      return () => log.push('cleanup:' + v); })   (spec.md section 8)
ProgCleanup ==
  [NoProg EXCEPT !["e1"] = <<I("get", "a", 0), I("log", "", 0), I("ret", "fn", 0)>>]

\* the same effect, writing a := 1 when it read 0, so that it is re-run from inside itself
ProgReenter ==
  [NoProg EXCEPT !["e1"] = <<I("get", "a", 0), I("log", "", 0), I("br", "nz", 5),
                             I("setc", "a", 1), I("ret", "fn", 0)>>]

\* e1 destroys e2 and makes e3 subscribe to a, all during a notification pass of a
ProgSnapshot ==
  [NoProg EXCEPT !["e1"] = <<I("get", "a", 0), I("br", "z", 5), I("destroy", "e2", 0),
                             I("setc", "b", 1)>>,
                 !["e2"] = <<I("get", "a", 0)>>,
                 !["e3"] = <<I("get", "b", 0), I("br", "z", 4), I("get", "a", 0)>>]

\* three readers of a; e2 reads a only while b is truthy, so the insertion order varies
ProgOrder ==
  [NoProg EXCEPT !["e1"] = <<I("get", "a", 0)>>,
                 !["e2"] = <<I("get", "b", 0), I("br", "z", 4), I("get", "a", 0)>>,
                 !["e3"] = <<I("get", "a", 0), I("ret", "junk", 0)>>]

\* e1 creates e3, writes b (which runs e2 from inside e1) and then reads c;
\* e2 throws when b is 1; e3 throws when c is 1
ProgNest ==
  [NoProg EXCEPT !["e1"] = <<I("create", "e3", 0), I("get", "a", 0), I("seta", "b", 0),
                             I("get", "c", 0), I("ret", "fn", 0)>>,
                 !["e2"] = <<I("get", "b", 0), I("br", "one", 4), I("ret", "none", 0),
                             I("throw", "", 0)>>,
                 !["e3"] = <<I("get", "c", 0), I("br", "one", 4), I("ret", "none", 0),
                             I("throw", "", 0)>>]

\* an effect that reads c only while a is falsy, and then makes a truthy: it is re-run
\* from inside itself, and the nested run does not read c
ProgReread ==
  [NoProg EXCEPT !["e1"] = <<I("get", "a", 0), I("br", "nz", 5), I("get", "c", 0),
                             I("setc", "a", 1)>>,
                 !["e2"] = <<I("get", "c", 0)>>]

\* a computed whose function throws while a is 1, read by an effect that throws while
\* the computed is truthy
ProgKThrow ==
  [NoProg EXCEPT !["k"]  = <<I("get", "a", 0), I("br", "one", 5), I("mul", "", 2),
                             I("ret", "val", 0), I("throw", "", 0)>>,
                 !["e1"] = <<I("getk", "k", 0), I("br", "nz", 4), I("ret", "none", 0),
                             I("throw", "", 0)>>]

\* e1 reads a and writes the other truth value into a, on every run; e2 reads c and
\* writes back what it read
ProgSpin ==
  [NoProg EXCEPT !["e1"] = <<I("get", "a", 0), I("br", "nz", 5), I("setc", "a", 1),
                             I("ret", "none", 0), I("setc", "a", 0)>>,
                 !["e2"] = <<I("get", "c", 0), I("seta", "c", 0)>>]

\* a computed that is 1 while a is 1 and 0 otherwise, logged by an effect
ProgEqual ==
  [NoProg EXCEPT !["k"]  = <<I("get", "a", 0), I("br", "one", 4), I("mul", "", 0),
                             I("ret", "val", 0)>>,
                 !["e1"] = <<I("getk", "k", 0)>>,
                 !["e2"] = <<I("get", "a", 0)>>]

\* three readers of a; the second returns a cleanup, except while a is 1: then it reads
\* b and throws
ProgThrow ==
  [NoProg EXCEPT !["e1"] = <<I("get", "a", 0)>>,
                 !["e2"] = <<I("get", "a", 0), I("br", "one", 4), I("ret", "fn", 0),
                             I("get", "b", 0), I("throw", "", 0), I("get", "c", 0)>>,
                 !["e3"] = <<I("get", "a", 0)>>]

\* an effect reading a computed and writing the cell the computed is derived from
ProgGuard ==
  [NoProg EXCEPT !["k"]  = <<I("get", "a", 0), I("mul", "", 2), I("ret", "val", 0)>>,
                 !["e1"] = <<I("getk", "k", 0), I("setc", "a", 2)>>]

\* the effect of ProgCleanup, and a second effect that reads a and calls dispose() on
\* the first one's handle
ProgRelease ==
  [NoProg EXCEPT !["e1"] = <<I("get", "a", 0), I("log", "", 0), I("ret", "fn", 0)>>,
                 !["e2"] = <<I("get", "a", 0), I("dispose", "e1", 0)>>]

\* A program: the bodies, the setup statements run first (in order), the cells the
\* top level writes, the initial values of "a", the other top-level calls it makes,
\* and whether the history of its set calls is kept.
Program(p, setup, cells, inits, calls, trace) ==
  [prog |-> p, setup |-> setup, cells |-> cells, inits |-> inits, calls |-> calls,
   trace |-> trace]

Scenarios ==
  [scenario |-> Program(ProgScenario, <<"k", "e1">>, {"a"}, Vals, {}, TRUE),
   sum      |-> Program(ProgSum, <<"k", "e1">>, {"a", "b"}, {0}, {"read"}, FALSE),
   diamond  |-> Program(ProgDiamond, <<"k", "e1">>, {"a"}, {0}, {"read"}, FALSE),
   cond     |-> Program(ProgCond, <<"e1", "e2">>, {"a", "b", "c"}, {0, 1}, {}, FALSE),
   cleanup  |-> Program(ProgCleanup, <<"e1">>, {"a"}, {0}, {"destroy", "dispose"}, TRUE),
   reenter  |-> Program(ProgReenter, <<"e1">>, {"a"}, {0}, {"destroy", "dispose"}, TRUE),
   snapshot |-> Program(ProgSnapshot, <<"e1", "e2", "e3">>, {"a", "b"}, {0}, {"run"}, FALSE),
   order    |-> Program(ProgOrder, <<"e1", "e2", "e3">>, {"a", "b"}, {0}, {"destroy"}, FALSE),
   nest     |-> Program(ProgNest, <<"e2", "e1">>, {"a", "c"}, {0}, {"run"}, FALSE),
   guard    |-> Program(ProgGuard, <<"k", "e1">>, {"a"}, {0}, {"read"}, FALSE),
   reread   |-> Program(ProgReread, <<"e1", "e2">>, {"a", "c"}, {0}, {}, FALSE),
   kthrow   |-> Program(ProgKThrow, <<"k", "e1">>, {"a"}, {0}, {"read"}, FALSE),
   spin     |-> Program(ProgSpin, <<"e2", "e1">>, {"a", "c"}, {0}, {}, FALSE),
   equal    |-> Program(ProgEqual, <<"k", "e1", "e2">>, {"a"}, {0}, {"read"}, FALSE),
   throw    |-> Program(ProgThrow, <<"e1", "e2", "e3">>, {"a", "b"}, {0}, {}, FALSE),
   release  |-> Program(ProgRelease, <<"e1", "e2">>, {"a"}, {0},
                        {"dispose", "destroy", "run"}, FALSE)]

ScnNames == DOMAIN Scenarios

Scn == Scenarios[scn]

Prog(b) == Scn.prog[b]

(***************************************************************************)
(* JS Set, in insertion order (Set.prototype.add / delete, and the         *)
(* iteration order of a spread).                                           *)
(***************************************************************************)
Elems(s) == {s[j] : j \in 1 .. Len(s)}

SetAdd(s, x) == IF x \in Elems(s) THEN s ELSE Append(s, x)

SetDelete(s, x) == SelectSeq(s, LAMBDA y : y # x)

Count(s, x) == Cardinality({j \in 1 .. Len(s) : s[j] = x})

(***************************************************************************)
(* The call stack.  A frame holds the method (kind), the object it was     *)
(* called on (id), its argument (v), its locals (subs and i of the loop of *)
(* Signal.set, previousEffect of Effect.run, acc of a client body) and,    *)
(* as observations taken at the call, the slot (cur0), the body counters   *)
(* (base, pass0), and for Signal.set the subscriber set at the call        *)
(* (subs0), the effects whose latest run had read the cell (rd0), the runs *)
(* it dispatched (disp) and those of them that were no longer subscribed   *)
(* when dispatched (absent), and for Effect.destroy all the subscriber     *)
(* sets (all0), the pending cleanup (cl0) and the length of the log (log0) *)
(* at the call, and for Effect.run the cells read under its effect since   *)
(* it started (rset).  A Signal.set frame also notes the value it found    *)
(* (old) and the effects that were destroyed (dead0); a recomputation notes the result of the function (res) and, at   *)
(* the push, the output cell's value (old) and subscribers (subs0).        *)
(***************************************************************************)
Frame(kind, id, v) ==
  [kind |-> kind, pc |-> "entry", id |-> id, v |-> v, subs |-> <<>>, i |-> 1,
   prev |-> None, acc |-> 0, cur0 |-> currentEffect, base |-> runs, pass0 |-> npass,
   subs0 |-> IF kind = "set" THEN subscribers[id] ELSE <<>>,
   rd0 |-> IF kind = "set" THEN {r \in Effects : id \in reads[r]} ELSE {},
   disp |-> <<>>, absent |-> {},
   all0 |-> IF kind = "destroy" THEN subscribers ELSE <<>>,
   cl0 |-> IF kind = "destroy" THEN cleanup[id] ELSE <<>>,
   log0 |-> IF kind = "destroy" THEN Len(log) ELSE 0,
   rset |-> {},
   dead0 |-> IF kind = "set" THEN destroyed ELSE {},
   res |-> Undef,
   old |-> IF kind = "set" THEN value[id] ELSE Undef]

Top == stack[Len(stack)]

Below == SubSeq(stack, 1, Len(stack) - 1)

Push(f, g) == Append(Below, f) \o <<g>>

Running == stack # <<>> /\ exc = NoError

Idle == stack = <<>>

CanPush == Len(stack) < MaxDepth

(***************************************************************************)
(* Signal                                                                  *)
(***************************************************************************)
\* a comparison that takes a falsy value for a change
SameValueTruthy(x, y) == x = y /\ Truthy(x)

\* a comparison that finds every value changed
SameValueNever(x, y) == FALSE

\* a comparison that finds every value equal
SameValueAlways(x, y) == TRUE

\* Object.is on the modelled values (reactive.js:19)
SameValue(x, y) == x = y

\* a copy that misses the first subscriber
SnapshotSkipFirst(c) == IF subscribers[c] = <<>> THEN <<>> ELSE Tail(subscribers[c])

\* a copy walked from the last subscriber to the first
SnapshotReversed(c) ==
  [j \in 1 .. Len(subscribers[c]) |-> subscribers[c][Len(subscribers[c]) + 1 - j]]

\* const subs = [...this.subscribers]  (reactive.js:25)
Snapshot(c) == subscribers[c]

\* a loop over the live subscriber set
IteratedLive(f) == subscribers[f.id]

\* what the loop of Signal.set walks: the copy, not the live set (reactive.js:26)
Iterated(f) == f.subs

\* the subscriber the loop of Signal.set visits next (reactive.js:26)
NextSubscriber(f) == Iterated(f)[f.i]

\* whether the loop of Signal.set has a subscriber left to visit (reactive.js:26)
MoreSubscribers(f) == f.i <= Len(Iterated(f))

\* a loop that never moves on to the next subscriber
AdvanceStuck(f) == f.i

\* the position of the loop of Signal.set after a subscriber has been visited
\* (for ... of, reactive.js:26)
Advance(f) == f.i + 1

\* Signal.get, lines 11-14: the subscriber set of c after a read under the slot
GetSubscribers(c) ==
  IF currentEffect # None
  THEN [subscribers EXCEPT ![c] = SetAdd(@, currentEffect)]
  ELSE subscribers

\* a read that subscribes the current effect without recording the dependency
GetDependenciesNone(c) == dependencies

\* Signal.get, lines 11-14: the dependency sets after a read of c under the slot
GetDependencies(c) ==
  IF currentEffect # None
  THEN [dependencies EXCEPT ![currentEffect] = SetAdd(@, c)]
  ELSE dependencies

\* observation: the cells read under the slot during the latest run of each effect
GetReads(c) ==
  IF currentEffect # None
  THEN [reads EXCEPT ![currentEffect] = @ \cup {c}]
  ELSE reads

\* observation: the stack after a read of c under the slot, noted in every run of the
\* current effect that is in progress
NoteRead(stk, c) ==
  [j \in 1 .. Len(stk) |->
     IF stk[j].kind = "run" /\ stk[j].pc = "body" /\ stk[j].id = currentEffect
     THEN [stk[j] EXCEPT !.rset = @ \cup {c}]
     ELSE stk[j]]

\* a run that keeps its old subscriptions
UnsubscribedNone(e) == subscribers

\* Signal.unsubscribe applied to every dependency of e (reactive.js:31-33, 48-50)
Unsubscribed(e) ==
  [c \in Cells |-> IF c \in Elems(dependencies[e])
                   THEN SetDelete(subscribers[c], e)
                   ELSE subscribers[c]]

\* a run that keeps its old dependency set
ClearedNone(e) == dependencies

\* this.dependencies.clear() (reactive.js:51, 82)
Cleared(e) == [dependencies EXCEPT ![e] = <<>>]

\* Signal.set (reactive.js:18-29)
SignalSet ==
  /\ Running
  /\ Top.kind = "set"
  /\ LET f == Top
         c == Top.id
     IN  CASE f.pc = "entry" ->
                IF SameValue(value[c], f.v)
                THEN /\ stack' = Below
                     /\ ret' = Undefined
                     /\ UNCHANGED <<core, obs, ctl, exc>>
                ELSE /\ value' = [value EXCEPT ![c] = f.v]
                     /\ stack' = Append(Below, [f EXCEPT !.pc = "loop",
                                                         !.subs = Snapshot(c),
                                                         !.i = 1])
                     /\ npass' = npass + 1
                     /\ UNCHANGED <<subscribers, dependencies, cleanup, currentEffect,
                                    dirty, computing, created, runs, reads, log, hist, destroyed,
                                    ctl, exc, ret>>
           [] f.pc = "loop" ->
                IF MoreSubscribers(f)
                THEN /\ CanPush
                     /\ LET e == NextSubscriber(f)
                        IN  stack' = Push([f EXCEPT !.i = Advance(f),
                                                    !.disp = Append(f.disp, e),
                                                    !.absent = IF e \in Elems(subscribers[c])
                                                               THEN f.absent
                                                               ELSE f.absent \cup {e}],
                                          Frame("run", e, 0))
                     /\ UNCHANGED <<core, obs, ctl, exc, ret>>
                ELSE /\ stack' = Below
                     /\ ret' = Undefined
                     /\ UNCHANGED <<core, obs, ctl, exc>>

(***************************************************************************)
(* Effect                                                                  *)
(***************************************************************************)
\* a run that stores every truthy result as the cleanup
StoredCleanupTruthy(r) == IF r.t \in {"fn", "junk"} THEN <<r.v>> ELSE <<>>

\* typeof result === 'function' ? result : null  (reactive.js:62)
StoredCleanup(r) == IF r.t = "fn" THEN <<r.v>> ELSE <<>>

\* a finally that clears the slot
RestoredNull(f) == None

\* the slot after the finally of Effect.run (reactive.js:64)
Restored(f) == f.prev

\* the function an effect wraps: a client body, or the arrow function of Computed
BodyFrame(e) ==
  IF e \in UserEffects THEN Frame("fn", e, 0) ELSE Frame("wrap", ComputedOf(e), 0)

\* a constructor that disposes and does not run
FirstRunDispose(e) == Frame("dispose", e, 0)

\* this.run() at the end of the constructor (reactive.js:41)
FirstRun(e) == Frame("run", e, 0)

\* new Effect(fn) (reactive.js:37-42)
NewEffect ==
  /\ Running
  /\ Top.kind = "newEffect"
  /\ LET f == Top
         e == Top.id
     IN  CASE f.pc = "entry" ->
                /\ CanPush
                /\ cleanup' = [cleanup EXCEPT ![e] = <<>>]
                /\ dependencies' = [dependencies EXCEPT ![e] = <<>>]
                /\ created' = created \cup {e}
                /\ stack' = Push([f EXCEPT !.pc = "ran"], FirstRun(e))
                /\ UNCHANGED <<value, subscribers, currentEffect, dirty, computing,
                               obs, ctl, exc, ret>>
           [] f.pc = "ran" ->
                /\ stack' = Below
                /\ ret' = Undefined
                /\ UNCHANGED <<core, obs, ctl, exc>>

\* Effect.run (reactive.js:44-66)
EffectRun ==
  /\ Running
  /\ Top.kind = "run"
  /\ LET f == Top
         e == Top.id
     IN  CASE f.pc = "entry" ->          \* line 45: this.dispose()
                /\ CanPush
                /\ stack' = Push([f EXCEPT !.pc = "unsub"], Frame("dispose", e, 0))
                /\ UNCHANGED <<core, obs, ctl, exc, ret>>
           [] f.pc = "unsub" ->          \* lines 48-57, up to the call of this.fn
                /\ CanPush
                /\ subscribers' = Unsubscribed(e)
                /\ dependencies' = Cleared(e)
                /\ currentEffect' = e
                /\ reads' = [reads EXCEPT ![e] = {}]
                /\ runs' = [runs EXCEPT ![e] = @ + 1]
                /\ stack' = Push([f EXCEPT !.pc = "body", !.prev = currentEffect],
                                 [BodyFrame(e) EXCEPT !.cur0 = e])
                /\ destroyed' = destroyed \ {e}
                /\ UNCHANGED <<value, cleanup, dirty, computing, created, log, hist, npass,
                               ctl, exc, ret>>
           [] f.pc = "body" ->           \* lines 62-65: this.fn returned
                /\ cleanup' = [cleanup EXCEPT ![e] = StoredCleanup(ret)]
                /\ currentEffect' = Restored(f)
                /\ stack' = Below
                /\ ret' = Undefined
                /\ UNCHANGED <<value, subscribers, dependencies, dirty, computing,
                               created, obs, ctl, exc>>

\* a dispose that leaves the cleanup in place after calling it
DisposedKept(e) == cleanup

\* this.cleanup = null, after the cleanup has been called (reactive.js:72)
Disposed(e) == [cleanup EXCEPT ![e] = <<>>]

\* Effect.dispose (reactive.js:69-74)
EffectDispose ==
  /\ Running
  /\ Top.kind = "dispose"
  /\ LET f == Top
         e == Top.id
     IN  CASE f.pc = "entry" ->
                IF cleanup[e] # <<>>
                THEN /\ CanPush
                     /\ stack' = Push([f EXCEPT !.pc = "called"],
                                      Frame("cleanup", e, cleanup[e][1]))
                     /\ UNCHANGED <<core, obs, ctl, exc, ret>>
                ELSE /\ stack' = Below
                     /\ ret' = Undefined
                     /\ UNCHANGED <<core, obs, ctl, exc>>
           [] f.pc = "called" ->         \* line 72
                /\ cleanup' = Disposed(e)
                /\ stack' = Below
                /\ ret' = Undefined
                /\ UNCHANGED <<value, subscribers, dependencies, currentEffect, dirty,
                               computing, created, obs, ctl, exc>>

\* a destroy that leaves the subscriptions in place
TornNone(e) == subscribers

\* the subscriber sets after the loop of Effect.destroy (reactive.js:79-81)
Torn(e) == Unsubscribed(e)

\* Effect.destroy (reactive.js:77-83)
EffectDestroy ==
  /\ Running
  /\ Top.kind = "destroy"
  /\ LET f == Top
         e == Top.id
     IN  CASE f.pc = "entry" ->
                /\ CanPush
                /\ stack' = Push([f EXCEPT !.pc = "unsub"], Frame("dispose", e, 0))
                /\ UNCHANGED <<core, obs, ctl, exc, ret>>
           [] f.pc = "unsub" ->
                /\ subscribers' = Torn(e)
                /\ dependencies' = Cleared(e)
                /\ destroyed' = destroyed \cup {e}
                /\ stack' = Below
                /\ ret' = Undefined
                /\ UNCHANGED <<value, cleanup, currentEffect, dirty, computing, created,
                               runs, reads, log, hist, npass, ctl, exc>>

\* A cleanup function returned by a client body: () => log.push('cleanup:' + v)
CleanupCall ==
  /\ Running
  /\ Top.kind = "cleanup"
  /\ log' = Append(log, <<"cleanup", Top.id, Top.v>>)
  /\ stack' = Below
  /\ ret' = Undefined
  /\ UNCHANGED <<core, runs, reads, hist, npass, destroyed, ctl, exc>>

(***************************************************************************)
(* Computed                                                                *)
(***************************************************************************)
\* an internal effect without the guard
GuardedNever(k) == FALSE

\* a guard with the test inverted
GuardedInverted(k) == ~computing[k]

\* if (this.computing) return;  (reactive.js:110)
Guarded(k) == computing[k]

\* a getter that recomputes on every read
IsDirtyAlways(k) == TRUE

\* if (this.dirty)  (reactive.js:126)
IsDirty(k) == dirty[k]

\* a finally that leaves the flag set
FinallySkipped(k) == computing

\* finally { this.computing = false }  (reactive.js:118-120, 132-134)
Finally(k) == [computing EXCEPT ![k] = FALSE]

\* new Computed(fn) (reactive.js:89-122)
NewComputed ==
  /\ Running
  /\ Top.kind = "newComputed"
  /\ LET f == Top
         k == Top.id
     IN  CASE f.pc = "entry" ->          \* lines 90-100
                /\ CanPush
                /\ value' = [value EXCEPT ![SignalOf(k)] = Undef]
                /\ subscribers' = [subscribers EXCEPT ![SignalOf(k)] = <<>>]
                /\ dirty' = [dirty EXCEPT ![k] = TRUE]
                /\ computing' = [computing EXCEPT ![k] = FALSE]
                /\ created' = created \cup {k}
                /\ stack' = Push([f EXCEPT !.pc = "made"], Frame("newEffect", EffectOf(k), 0))
                /\ UNCHANGED <<dependencies, cleanup, currentEffect, obs, ctl, exc, ret>>
           [] f.pc = "made" ->
                /\ stack' = Below
                /\ ret' = Undefined
                /\ UNCHANGED <<core, obs, ctl, exc>>

\* The arrow function of the internal Effect (reactive.js:100-121)
ComputedEffect ==
  /\ Running
  /\ Top.kind = "wrap"
  /\ LET f == Top
         k == Top.id
     IN  CASE f.pc = "entry" ->          \* lines 110-115
                IF Guarded(k)
                THEN /\ stack' = Below
                     /\ ret' = Undefined
                     /\ UNCHANGED <<core, obs, ctl, exc>>
                ELSE /\ CanPush
                     /\ computing' = [computing EXCEPT ![k] = TRUE]
                     /\ runs' = [runs EXCEPT ![k] = @ + 1]
                     /\ stack' = Push([f EXCEPT !.pc = "fn"], Frame("kfn", k, 0))
                     /\ UNCHANGED <<value, subscribers, dependencies, cleanup,
                                    currentEffect, dirty, created, reads, log, hist, npass, destroyed,
                                    ctl, exc, ret>>
           [] f.pc = "fn" ->             \* line 116: this.signal.set(result)
                /\ CanPush
                /\ stack' = Push([f EXCEPT !.pc = "set", !.res = ret.v,
                                            !.old = value[SignalOf(k)],
                                            !.subs0 = subscribers[SignalOf(k)]],
                                 Frame("set", SignalOf(k), ret.v))
                /\ UNCHANGED <<core, obs, ctl, exc, ret>>
           [] f.pc = "set" ->            \* lines 117-120
                /\ dirty' = [dirty EXCEPT ![k] = FALSE]
                /\ computing' = Finally(k)
                /\ stack' = Below
                /\ ret' = Undefined
                /\ UNCHANGED <<value, subscribers, dependencies, cleanup, currentEffect,
                               created, obs, ctl, exc>>

\* Computed.get (reactive.js:125-137)
ComputedGet ==
  /\ Running
  /\ Top.kind = "cget"
  /\ LET f == Top
         k == Top.id
         s == SignalOf(Top.id)
     IN  CASE f.pc = "entry" /\ IsDirty(k) ->        \* lines 126-130
                /\ CanPush
                /\ computing' = [computing EXCEPT ![k] = TRUE]
                /\ runs' = [runs EXCEPT ![k] = @ + 1]
                /\ stack' = Push([f EXCEPT !.pc = "fn"], Frame("kfn", k, 0))
                /\ UNCHANGED <<value, subscribers, dependencies, cleanup, currentEffect,
                               dirty, created, reads, log, hist, npass, destroyed, ctl, exc,
                               ret>>
           [] f.pc = "fn" ->                       \* line 130: this.signal.set(...)
                /\ CanPush
                /\ stack' = Push([f EXCEPT !.pc = "set"], Frame("set", s, ret.v))
                /\ UNCHANGED <<core, obs, ctl, exc, ret>>
           [] f.pc = "set" ->                      \* lines 131-133
                /\ dirty' = [dirty EXCEPT ![k] = FALSE]
                /\ computing' = Finally(k)
                /\ stack' = Append(Below, [f EXCEPT !.pc = "read"])
                /\ UNCHANGED <<value, subscribers, dependencies, cleanup, currentEffect,
                               created, obs, ctl, exc, ret>>
           [] (f.pc = "entry" /\ ~IsDirty(k)) \/ f.pc = "read" ->   \* line 136
                /\ subscribers' = GetSubscribers(s)
                /\ dependencies' = GetDependencies(s)
                /\ reads' = GetReads(s)
                /\ ret' = RVal(value[s])
                /\ stack' = NoteRead(Below, s)
                /\ UNCHANGED <<value, cleanup, currentEffect, dirty, computing, created,
                               runs, log, hist, npass, destroyed, ctl, exc>>

(***************************************************************************)
(* Client bodies                                                           *)
(***************************************************************************)
Jump(w, x) ==
  CASE w = "z" -> ~Truthy(x)
    [] w = "nz" -> Truthy(x)
    [] w = "one" -> x = 1

Returned(w, x) ==
  CASE w = "none" -> Undefined
    [] w = "val" -> RVal(x)
    [] w = "fn" -> RFn(x)
    [] w = "junk" -> RJunk

Load(m, x, y) == IF m = 1 THEN x + y ELSE y

\* One statement of the function given to createEffect ("fn") or createComputed ("kfn")
BodyStep ==
  /\ Running
  /\ Top.kind \in {"fn", "kfn"}
  /\ LET f == Top
         P == Prog(Top.id)
         next == [Top EXCEPT !.i = Top.i + 1]
     IN  IF f.pc = "ret"
         THEN \* the getter called by a getk statement has returned
              /\ stack' = Append(Below, [next EXCEPT !.pc = "entry",
                                                     !.acc = Load(P[f.i].n, f.acc, ret.v)])
              /\ UNCHANGED <<core, obs, ctl, exc, ret>>
         ELSE IF f.i > Len(P)
         THEN \* the end of the function
              /\ stack' = Below
              /\ ret' = Undefined
              /\ UNCHANGED <<core, obs, ctl, exc>>
         ELSE LET ins == P[f.i]
              IN  CASE ins.op = "get" ->
                         /\ subscribers' = GetSubscribers(ins.id)
                         /\ dependencies' = GetDependencies(ins.id)
                         /\ reads' = GetReads(ins.id)
                         /\ stack' = NoteRead(Append(Below, [next EXCEPT
                                               !.acc = Load(ins.n, f.acc, value[ins.id])]),
                                               ins.id)
                         /\ UNCHANGED <<value, cleanup, currentEffect, dirty, computing,
                                        created, runs, log, hist, npass, destroyed, ctl, exc,
                                        ret>>
                    [] ins.op = "getk" ->
                         /\ CanPush
                         /\ stack' = Push([f EXCEPT !.pc = "ret"], Frame("cget", ins.id, 0))
                         /\ UNCHANGED <<core, obs, ctl, exc, ret>>
                    [] ins.op = "mul" ->
                         /\ stack' = Append(Below, [next EXCEPT !.acc = f.acc * ins.n])
                         /\ UNCHANGED <<core, obs, ctl, exc, ret>>
                    [] ins.op = "br" ->
                         /\ stack' = Append(Below, IF Jump(ins.id, f.acc)
                                                   THEN [f EXCEPT !.i = ins.n]
                                                   ELSE next)
                         /\ UNCHANGED <<core, obs, ctl, exc, ret>>
                    [] ins.op \in {"setc", "seta"} ->
                         /\ CanPush
                         /\ stack' = Push(next, Frame("set", ins.id,
                                                IF ins.op = "setc" THEN ins.n ELSE f.acc))
                         /\ UNCHANGED <<core, obs, ctl, exc, ret>>
                    [] ins.op = "log" ->
                         /\ log' = Append(log, <<"run", f.id, f.acc>>)
                         /\ stack' = Append(Below, next)
                         /\ UNCHANGED <<core, runs, reads, hist, npass, destroyed, ctl, exc, ret>>
                    [] ins.op = "destroy" ->
                         /\ CanPush
                         /\ stack' = Push(next, Frame("destroy", ins.id, 0))
                         /\ UNCHANGED <<core, obs, ctl, exc, ret>>
                    [] ins.op = "dispose" ->
                         /\ CanPush
                         /\ stack' = Push(next, Frame("dispose", ins.id, 0))
                         /\ UNCHANGED <<core, obs, ctl, exc, ret>>
                    [] ins.op = "create" ->
                         /\ CanPush
                         /\ stack' = IF ins.id \in created
                                     THEN Append(Below, next)
                                     ELSE Push(next, Frame("newEffect", ins.id, 0))
                         /\ UNCHANGED <<core, obs, ctl, exc, ret>>
                    [] ins.op = "throw" ->
                         /\ exc' = <<"Error", f.id>>
                         /\ UNCHANGED <<core, obs, ctl, stack, ret>>
                    [] ins.op = "ret" ->
                         /\ stack' = Below
                         /\ ret' = Returned(ins.id, f.acc)
                         /\ UNCHANGED <<core, obs, ctl, exc>>

\* What a function given to createComputed yields on the current values of the cells
\* (this.fn() at reactive.js:115, for a function that only reads and computes)
RECURSIVE Yield(_, _, _)
Yield(P, i, acc) ==
  IF i > Len(P) THEN Undef
  ELSE CASE P[i].op = "get" -> Yield(P, i + 1, Load(P[i].n, acc, value[P[i].id]))
         [] P[i].op = "mul" -> Yield(P, i + 1, acc * P[i].n)
         [] P[i].op = "br"  -> Yield(P, IF Jump(P[i].id, acc) THEN P[i].n ELSE i + 1, acc)
         [] P[i].op = "ret" -> Returned(P[i].id, acc).v
         [] P[i].op = "throw" -> Raise
         [] OTHER -> Undef

(***************************************************************************)
(* A thrown error leaves the frames one by one.  The source catches       *)
(* nothing; the three try/finally blocks act on the way out.               *)
(***************************************************************************)
\* a set that puts the old value back when a subscriber throws
UnwoundRollback(f) ==
  IF f.kind = "set" /\ f.pc = "loop" THEN [value EXCEPT ![f.id] = f.old] ELSE value

\* the values of the cells after an error has left a frame: the loop of Signal.set has
\* no try, nothing is put back (reactive.js:20, 26-28)
Unwound(f) == value

Unwind ==
  /\ stack # <<>>
  /\ exc # NoError
  /\ LET f == Top
     IN  /\ stack' = Below
         /\ currentEffect' = IF f.kind = "run" /\ f.pc = "body"     \* reactive.js:63-65
                             THEN Restored(f)
                             ELSE currentEffect
         /\ computing' = IF f.kind \in {"wrap", "cget"} /\ f.pc \in {"fn", "set"}
                         THEN Finally(f.id)
                         ELSE computing
         /\ value' = Unwound(f)
         /\ UNCHANGED <<subscribers, dependencies, cleanup, dirty, created, obs,
                        ctl, exc, ret>>

\* a step of the code of the core or of a client function
Step ==
  \/ SignalSet
  \/ NewEffect
  \/ EffectRun
  \/ EffectDispose
  \/ EffectDestroy
  \/ CleanupCall
  \/ NewComputed
  \/ ComputedEffect
  \/ ComputedGet
  \/ BodyStep

\* Whether the next thing the innermost frame does is a call (of a method of the core,
\* of a client function, or of a built-in); a frame that is about to return makes none.
Calls(f) ==
  CASE f.kind = "set" -> f.pc = "entry" \/ f.i = 1 \/ MoreSubscribers(f)   \* lines 19, 25, 27
    [] f.kind = "run" -> f.pc \in {"entry", "unsub"}                  \* lines 45, 49, 57
    [] f.kind = "dispose" -> f.pc = "entry" /\ cleanup[f.id] # <<>>   \* line 71
    [] f.kind = "destroy" -> f.pc \in {"entry", "unsub"}              \* lines 78, 80
    [] f.kind = "cleanup" -> TRUE
    [] f.kind = "newEffect" -> f.pc = "entry"                         \* line 41
    [] f.kind = "newComputed" -> f.pc = "entry"                       \* lines 92, 100
    [] f.kind = "wrap" -> (f.pc = "entry" /\ ~Guarded(f.id)) \/ f.pc = "fn"   \* 115, 116
    [] f.kind = "cget" -> f.pc # "set"                                \* lines 130, 136
    [] f.kind \in {"fn", "kfn"} ->
         /\ f.pc # "ret"
         /\ f.i <= Len(Prog(f.id))
         /\ Prog(f.id)[f.i].op \in {"get", "getk", "setc", "seta", "log", "destroy",
                                   "dispose", "create"}

\* the call stack is nearly exhausted: the engine's limit lies within StackSlack frames
NearLimit == Len(stack) + StackSlack >= MaxDepth

\* The engine raises its error at a call made when the stack is exhausted.  Nothing in
\* the source bounds the depth (no guard in Signal.set or Effect.run, reactive.js:26-28,
\* 44-57); at which call of the recursion the error lands depends on the stack already
\* in use and on the sizes of the frames, so it may be any call made near the limit:
\* before dispose, before or after the unsubscription of lines 48-51, inside the body
\* before or after a read, before or after the assignment of line 20.
Overflow ==
  /\ Running
  /\ NearLimit
  /\ Calls(Top)
  /\ exc' = StackError
  /\ UNCHANGED <<core, obs, ctl, stack, ret>>

(***************************************************************************)
(* The top level: the program's setup, then calls of the public API.       *)
(***************************************************************************)
SetupDone == setupIdx > Len(Scn.setup)

CallRecord(op, id, v) == [op |-> op, id |-> id, v |-> v, old |-> IF op = "set" THEN value[id] ELSE 0]

Begin(op, id, v, f) ==
  /\ stack' = <<[f EXCEPT !.base = [b \in Bodies |-> 0], !.pass0 = 0]>>
  /\ exc' = NoError
  /\ ret' = Undefined
  /\ call' = CallRecord(op, id, v)
  /\ runs' = [b \in Bodies |-> 0]
  /\ npass' = 0
  /\ UNCHANGED <<core, reads, log, destroyed, scn>>

\* createEffect(fn) / createComputed(fn) (reactive.js:146-153), in the program's order
Setup ==
  /\ Idle
  /\ ~SetupDone
  /\ exc = NoError
  /\ LET x == Scn.setup[setupIdx]
     IN  Begin("create", x, 0,
               IF x \in Computeds THEN Frame("newComputed", x, 0)
                                  ELSE Frame("newEffect", x, 0))
  /\ setupIdx' = setupIdx + 1
  /\ UNCHANGED <<nops, hist>>

\* the setter returned by createSignal (reactive.js:143)
TopSet(c, v) ==
  /\ Idle
  /\ SetupDone
  /\ nops < MaxOps
  /\ c \in Scn.cells
  /\ Begin("set", c, v, Frame("set", c, v))
  /\ nops' = nops + 1
  /\ hist' = IF Scn.trace /\ value[c] # v THEN Append(hist, v) ELSE hist
  /\ UNCHANGED setupIdx

\* the getter returned by createComputed (reactive.js:152)
TopRead(k) ==
  /\ Idle
  /\ SetupDone
  /\ nops < MaxOps
  /\ "read" \in Scn.calls
  /\ k \in created
  /\ Begin("read", k, 0, Frame("cget", k, 0))
  /\ nops' = nops + 1
  /\ UNCHANGED <<setupIdx, hist>>

\* destroy() on the handle returned by createEffect
TopDestroy(e) ==
  /\ Idle
  /\ SetupDone
  /\ nops < MaxOps
  /\ "destroy" \in Scn.calls
  /\ e \in created
  /\ Begin("destroy", e, 0, Frame("destroy", e, 0))
  /\ nops' = nops + 1
  /\ UNCHANGED <<setupIdx, hist>>

\* dispose() on the handle returned by createEffect
TopDispose(e) ==
  /\ Idle
  /\ SetupDone
  /\ nops < MaxOps
  /\ "dispose" \in Scn.calls
  /\ e \in created
  /\ Begin("dispose", e, 0, Frame("dispose", e, 0))
  /\ nops' = nops + 1
  /\ UNCHANGED <<setupIdx, hist>>

\* run() on the handle returned by createEffect
TopRun(e) ==
  /\ Idle
  /\ SetupDone
  /\ nops < MaxOps
  /\ "run" \in Scn.calls
  /\ e \in created
  /\ Begin("run", e, 0, Frame("run", e, 0))
  /\ nops' = nops + 1
  /\ UNCHANGED <<setupIdx, hist>>

Init ==
  /\ scn \in ScnNames
  /\ \E a0 \in Scenarios[scn].inits :
        /\ value = [c \in Cells |-> IF c = "a" THEN a0
                                    ELSE IF c \in UserCells THEN 0 ELSE Undef]
        /\ hist = IF Scenarios[scn].trace THEN <<a0>> ELSE <<>>
  /\ subscribers = [c \in Cells |-> <<>>]
  /\ dependencies = [e \in Effects |-> <<>>]
  /\ cleanup = [e \in Effects |-> <<>>]
  /\ currentEffect = None
  /\ dirty = [k \in Computeds |-> FALSE]
  /\ computing = [k \in Computeds |-> FALSE]
  /\ created = {}
  /\ stack = <<>>
  /\ ret = Undefined
  /\ exc = NoError
  /\ runs = [b \in Bodies |-> 0]
  /\ reads = [e \in Effects |-> {}]
  /\ log = <<>>
  /\ npass = 0
  /\ destroyed = {}
  /\ call = [op |-> "none", id |-> "", v |-> 0, old |-> 0]
  /\ nops = 0
  /\ setupIdx = 1

Next ==
  \/ Setup
  \/ \E c \in UserCells, v \in Vals : TopSet(c, v)
  \/ \E k \in Computeds : TopRead(k)
  \/ \E e \in UserEffects : TopDestroy(e)
  \/ \E e \in UserEffects : TopDispose(e)
  \/ \E e \in UserEffects : TopRun(e)
  \/ SignalSet
  \/ NewEffect
  \/ EffectRun
  \/ EffectDispose
  \/ EffectDestroy
  \/ CleanupCall
  \/ NewComputed
  \/ ComputedEffect
  \/ ComputedGet
  \/ BodyStep
  \/ Unwind
  \/ Overflow

Spec == Init /\ [][Next]_vars

\* The engine runs a call to completion: a step of the code, of an unwinding or of the
\* stack limit that can be taken is taken.
Exec == Step \/ Unwind \/ Overflow

LiveSpec == Init /\ [][Next]_vars /\ WF_vars(Exec)

(***************************************************************************)
(* Properties                                                              *)
(***************************************************************************)
\* Signal.set is about to return normally from a value-changing call: its loop is over
\* and every run it dispatched has returned.
Returning == Running /\ Top.kind = "set" /\ Top.pc = "loop" /\ ~MoreSubscribers(Top)

\* invocations of the body of b since the call of the innermost frame
Delta(b) == runs[b] - Top.base[b]

\* C1 as stated: every reaction whose latest run read c (and that is still subscribed
\* to c) when c.set(v) changes the value has its body executed exactly once before set
\* returns.
C1_ExactlyOnce ==
  Returning =>
    \A r \in Top.rd0 \cap Elems(Top.subs0) : Delta(r) = 1

\* C1, amended: every reaction subscribed to c when c.set(v) changes the value has its
\* body executed at least once before set returns, and exactly once when no run of the
\* pass started a further notification pass.
C1_AtLeastOnce ==
  Returning =>
    \A r \in Elems(Top.subs0) :
      /\ Delta(r) >= 1
      /\ (npass = Top.pass0 + 1) => Delta(r) = 1

C1_Witness ==
  /\ Returning
  /\ scn = "diamond"
  /\ Top.id = "a"
  /\ "e1" \in Elems(Top.subs0)
  /\ Delta("e1") = 2

\* C2: a set with the stored value returns at once: no subscriber is run and nothing of
\* the state changes (values, subscriber sets, dependency sets, cleanups, the slot).
C2_NoopOnEqual ==
  [][(Running /\ Top.kind = "set" /\ Top.pc = "entry" /\ value[Top.id] = Top.v)
        => (stack' = Below /\ UNCHANGED <<core, obs>>)]_vars

C2_Witness ==
  /\ Idle
  /\ exc = NoError
  /\ call.op = "set"
  /\ call.v = call.old
  /\ Len(subscribers[call.id]) >= 2
  /\ runs = [b \in Bodies |-> 0]

\* C3: for the reaction a.get() ? b.get() : c.get(), a value-changing set of a runs it
\* once; one of b runs it once when a is truthy and not at all otherwise; one of c runs
\* it once when a is falsy and not at all otherwise.
C3_CondPruning ==
  (scn = "cond" /\ Returning) =>
    Delta("e1") = CASE Top.id = "a" -> 1
                    [] Top.id = "b" -> IF Truthy(value["a"]) THEN 1 ELSE 0
                    [] Top.id = "c" -> IF Truthy(value["a"]) THEN 0 ELSE 1

C3_Witness ==
  /\ scn = "cond"
  /\ Returning
  /\ Top.id = "c"
  /\ value["a"] = 2
  /\ nops = 3
  /\ Delta("e1") = 0
  /\ Delta("e2") = 1

\* C4: a notification pass runs exactly the reactions that were subscribed when it
\* started, each once, also those unsubscribed since by an earlier subscriber, and
\* dispatches none that subscribed during the pass.
C4_SnapshotIsolation ==
  Returning =>
    /\ \A r \in Elems(Top.subs0) : Count(Top.disp, r) = 1 /\ Delta(r) >= 1
    /\ \A r \in Effects \ Elems(Top.subs0) : Count(Top.disp, r) = 0

C4_Witness ==
  /\ Returning
  /\ Top.id = "a"
  /\ "e2" \in Top.absent
  /\ "e3" \in Elems(subscribers["a"]) \ Elems(Top.subs0)
  /\ Delta("e2") = 1
  /\ Delta("e3") = 1

\* C10: a value-changing set runs the reactions subscribed at the call, each once, in
\* the insertion order of the subscriber set, and they have all returned when it returns.
C10_InsertionOrder ==
  Returning => Top.disp = Top.subs0

C10_Witness ==
  /\ Returning
  /\ scn = "order"
  /\ Top.id = "a"
  /\ Top.subs0 = <<"e1", "e3", "e2">>
  /\ Top.disp = Top.subs0

\* C5: for createComputed(() => a.get() + b.get()), the body runs once at creation,
\* a read of the getter never runs it, and a read returns the sum of the current
\* values of a and b, whatever sets came before.
C5_LazyAndFresh ==
  (scn = "sum" /\ Idle /\ exc = NoError) =>
    /\ (call.op = "create" /\ call.id = "k") => runs["k"] = 1
    /\ call.op = "read" => /\ runs["k"] = 0
                           /\ ret = RVal(value["a"] + value["b"])

C5_Witness ==
  /\ scn = "sum"
  /\ Idle
  /\ exc = NoError
  /\ call.op = "read"
  /\ nops = 3
  /\ value["a"] = 2
  /\ value["b"] = 1
  /\ ret = RVal(3)
  /\ runs["k"] = 0

\* what seen must hold: 2 * v for the initial value and for every value-changing setCount(v)
Expected == [j \in 1 .. Len(hist) |-> <<"run", "e1", 2 * hist[j]>>]

\* C6: with doubled = count * 2 and an effect pushing doubled() on seen, after creation
\* and any sequence of setCount calls, seen is 2 * initial followed by 2 * v for each
\* setCount(v) that changed the stored value, in call order.
C6_SeenList ==
  (scn = "scenario" /\ Idle /\ SetupDone /\ exc = NoError) => log = Expected

C6_Witness ==
  /\ scn = "scenario"
  /\ Idle
  /\ nops = 2
  /\ call.op = "set"
  /\ call.v = 1
  /\ call.old = 1
  /\ log = <<<<"run", "e1", 0>>, <<"run", "e1", 2>>>>

\* the list alternates run:v, cleanup:v, run:w, cleanup:w, ...
Alternates(l) ==
  \A j \in 1 .. Len(l) :
    IF j % 2 = 1 THEN l[j][1] = "run" ELSE l[j] = <<"cleanup", l[j - 1][2], l[j - 1][3]>>

\* C7: for an effect whose every run logs run:v and returns a cleanup logging cleanup:v,
\* each cleanup is invoked once, after its run and before the body is executed again:
\* whenever no call is in progress the log alternates run:v, cleanup:v, and every
\* cleanup returned so far has been invoked or is the pending one; and creation at 0
\* followed by a set to 1 logs run:0, cleanup:0, run:1 (in the programs where nothing
\* else calls dispose).
C7_CleanupOrdering ==
  (scn \in {"cleanup", "reenter", "release"} /\ Idle /\ exc = NoError /\ SetupDone) =>
    /\ Alternates(log)
    /\ Len(log) = 2 * Cardinality({j \in 1 .. Len(log) : log[j][1] = "run"})
                     - (IF cleanup["e1"] # <<>> THEN 1 ELSE 0)
    /\ (scn # "release" /\ nops = 1 /\ call.op = "set" /\ call.old = 0 /\ call.v = 1) =>
         log = <<<<"run", "e1", 0>>, <<"cleanup", "e1", 0>>, <<"run", "e1", 1>>>>

\* dispose() called from the top level on the handle of a subscribed effect has invoked
\* the pending cleanup and cleared it, and has left the subscription in place
C7_Disposed ==
  /\ scn = "cleanup"
  /\ Idle
  /\ exc = NoError
  /\ nops = 1
  /\ call.op = "dispose"
  /\ log = << <<"run", "e1", 0>>, <<"cleanup", "e1", 0>> >>
  /\ cleanup["e1"] = <<>>
  /\ subscribers["a"] = <<"e1">>
  /\ dependencies["e1"] = <<"a">>

\* a set, then dispose() and destroy(): the cleanup of the latest run is invoked once
C7_DisposedDestroyed ==
  /\ scn = "cleanup"
  /\ Idle
  /\ exc = NoError
  /\ nops = 3
  /\ call.op = "destroy"
  /\ log = << <<"run", "e1", 0>>, <<"cleanup", "e1", 0>>, <<"run", "e1", 1>>,
              <<"cleanup", "e1", 1>> >>
  /\ cleanup["e1"] = <<>>
  /\ subscribers["a"] = <<>>

\* dispose() called from the body of another effect, at its creation
C7_DisposedInBody ==
  /\ scn = "release"
  /\ Idle
  /\ exc = NoError
  /\ SetupDone
  /\ nops = 0
  /\ log = << <<"run", "e1", 0>>, <<"cleanup", "e1", 0>> >>
  /\ cleanup["e1"] = <<>>
  /\ subscribers["a"] = <<"e1", "e2">>

\* C8: the slot is none when no call is in progress; while the body of an effect is
\* the innermost frame the slot is that effect; a run that returns or is left by an error
\* puts back the slot it found; and an error in flight reaches the top-level caller
\* unchanged.
C8_TrackerRestored ==
  /\ [](Idle => currentEffect = None)
  /\ []((stack # <<>> /\ Top.kind = "fn") => currentEffect = Top.id)
  /\ []((Len(stack) > 1 /\ Top.kind = "kfn" /\ stack[Len(stack) - 1].kind = "wrap")
          => currentEffect = EffectOf(Top.id))
  /\ [][(stack # <<>> /\ Top.kind = "run" /\ stack' = Below)
           => currentEffect' = Top.cur0]_vars
  /\ [][(stack # <<>> /\ exc # NoError) => exc' = exc]_vars

C8_Witness ==
  /\ scn = "nest"
  /\ Idle
  /\ exc = <<"Error", "e2">>
  /\ call.op = "set"
  /\ call.id = "a"
  /\ runs["e1"] = 1
  /\ runs["e2"] = 1
  /\ currentEffect = None

\* the recomputations of k in progress: the body has been invoked and the push into the
\* output cell has not returned
Recomputing(k) ==
  {j \in 1 .. Len(stack) : /\ stack[j].kind \in {"wrap", "cget"}
                           /\ stack[j].id = k
                           /\ stack[j].pc \in {"fn", "set"}}

\* C9: at most one recomputation of a computed, and at most one invocation of its body,
\* is on the stack; the body is never invoked while a recomputation is in progress; and
\* a read of the getter during a recomputation returns the stored value in one step.
C9_ReentrancyGuard ==
  /\ [](\A k \in Computeds :
          /\ Cardinality(Recomputing(k)) <= 1
          /\ Cardinality({j \in 1 .. Len(stack) :
                            stack[j].kind = "kfn" /\ stack[j].id = k}) <= 1)
  /\ [][\A k \in Computeds : runs'[k] > runs[k] => ~computing[k]]_vars
  /\ [][(Running /\ Top.kind = "cget" /\ computing[Top.id])
           => /\ Len(stack') = Len(stack) - 1
              /\ ret' = RVal(value[SignalOf(Top.id)])
              /\ runs' = runs
              /\ value' = value]_vars

\* the internal effect of k has been re-run from inside the push of k and its body
\* has returned through the guard
C9_Witness ==
  /\ scn = "guard"
  /\ Running
  /\ Top.kind = "run"
  /\ Top.id = "ke"
  /\ Top.pc = "body"
  /\ computing["k"]
  /\ Cardinality(Recomputing("k")) = 1
  /\ call.op = "set"

\* a constructor (createEffect or createComputed) is about to return normally
Made(kind) ==
  Running /\ Top.kind = kind /\ Top.pc = (IF kind = "newEffect" THEN "ran" ELSE "made")

\* C11 as stated: createEffect(body) executes body exactly once before it returns.
C11_ExactlyOnce ==
  (Made("newEffect") /\ Top.id \in UserEffects) => Delta(Top.id) = 1

\* C11, amended: when createEffect(body) returns, body has been executed at least once,
\* and exactly once when that first run started no notification pass; the new reaction
\* is subscribed to the cells its latest run read.  When createComputed(body) returns,
\* body has been executed exactly once and the output cell holds its result; a read of
\* the getter made first after the setup returns the stored result without executing
\* body.
C11_CreationRuns ==
  /\ (Made("newEffect") /\ Top.id \in UserEffects) =>
        /\ Delta(Top.id) >= 1
        /\ (npass = Top.pass0) => Delta(Top.id) = 1
        /\ \A c \in reads[Top.id] : /\ Top.id \in Elems(subscribers[c])
                                    /\ c \in Elems(dependencies[Top.id])
  /\ Made("newComputed") =>
        /\ Delta(Top.id) = 1
        /\ ~dirty[Top.id]
        /\ value[SignalOf(Top.id)] = Yield(Prog(Top.id), 1, 0)
        /\ Elems(subscribers[SignalOf(Top.id)]) = {}
  /\ (Idle /\ exc = NoError /\ call.op = "read" /\ nops = 1) =>
        /\ runs[call.id] = 0
        /\ ret = RVal(Yield(Prog(call.id), 1, 0))

\* createEffect returns inside another effect's body, the new reaction having run once
\* and subscribed to the cell it read
C11_Witness ==
  /\ Made("newEffect")
  /\ Top.id = "e3"
  /\ Len(stack) > 1
  /\ Delta("e3") = 1
  /\ reads["e3"] = {"c"}
  /\ subscribers["c"] = <<"e3">>

\* C12: when destroy() on a reaction returns, the cleanup that was pending at the call
\* (if any) has been invoked once, and nothing else was, and the slot is cleared; the
\* reaction is in no cell's subscriber set and its dependency set is empty; every
\* subscriber set is what it was at the call, less the reaction.
C12_DestroyTeardown ==
  [][(Running /\ Top.kind = "destroy" /\ Top.pc = "unsub") =>
       LET e == Top.id
       IN  /\ stack' = Below
           /\ cleanup'[e] = <<>>
           /\ SubSeq(log', Top.log0 + 1, Len(log')) =
                 (IF Top.cl0 = <<>> THEN <<>> ELSE << <<"cleanup", e, Top.cl0[1]>> >>)
           /\ dependencies'[e] = <<>>
           /\ \A c \in Cells : /\ e \notin Elems(subscribers'[c])
                               /\ subscribers'[c] = SetDelete(Top.all0[c], e)]_vars

\* destroy() has returned for an effect that had a pending cleanup and a subscription
C12_Witness ==
  /\ scn = "cleanup"
  /\ Idle
  /\ exc = NoError
  /\ call.op = "destroy"
  /\ nops = 2
  /\ log = << <<"run", "e1", 0>>, <<"cleanup", "e1", 0>>, <<"run", "e1", 2>>,
              <<"cleanup", "e1", 2>> >>
  /\ cleanup["e1"] = <<>>
  /\ subscribers["a"] = <<>>
  /\ dependencies["e1"] = <<>>

\* destroy() has returned for one of three subscribers of a cell, during or outside a pass
C12_WitnessOthers ==
  /\ scn = "order"
  /\ Idle
  /\ call.op = "destroy"
  /\ call.id = "e1"
  /\ subscribers["a"] = <<"e3", "e2">>

\* C13: a run whose body returned something that is not a function completes without
\* error and leaves no pending cleanup; a dispose that finds no pending cleanup (at the
\* start of the next run or of destroy) returns at once, invoking nothing and raising
\* nothing; and the reaction returning a truthy non-function never has a cleanup
\* invoked and never fails.
C13_InvalidCleanup ==
  /\ [][(Running /\ Top.kind = "run" /\ Top.pc = "body" /\ ret.t # "fn") =>
          /\ cleanup'[Top.id] = <<>>
          /\ exc' = NoError
          /\ stack' = Below]_vars
  /\ [][(Running /\ Top.kind = "dispose" /\ Top.pc = "entry" /\ cleanup[Top.id] = <<>>) =>
          /\ stack' = Below
          /\ exc' = NoError
          /\ log' = log]_vars
  /\ [](scn = "order" =>
          /\ exc = NoError
          /\ cleanup["e3"] = <<>>
          /\ \A j \in 1 .. Len(stack) : stack[j].kind # "cleanup")

\* the reaction returning a truthy non-function has been re-run by a set and then
\* destroyed
C13_Witness ==
  /\ scn = "order"
  /\ Idle
  /\ exc = NoError
  /\ nops = 2
  /\ call.op = "destroy"
  /\ call.id = "e3"
  /\ value["a"] = 1
  /\ cleanup["e3"] = <<>>
  /\ "e3" \notin Elems(subscribers["a"])

\* C14: in every reachable state (between any two steps of get, set, run, dispose and
\* destroy, nested or not, also after a body threw or a reaction was destroyed during a
\* pass), a reaction is in a cell's subscriber set if and only if the cell is in the
\* reaction's dependency set.
C14_Bidirectional ==
  \A c \in Cells, e \in Effects :
    e \in Elems(subscribers[c]) <=> c \in Elems(dependencies[e])

\* a body threw during a pass started from inside another run, and the error has
\* reached the caller; the thrower is subscribed to what it read
C14_Witness ==
  /\ scn = "nest"
  /\ Idle
  /\ exc = <<"Error", "e3">>
  /\ dependencies["e3"] = <<"c">>
  /\ "e3" \in Elems(subscribers["c"])
  /\ "e1" \in Elems(subscribers["a"])

\* a run of a reaction is about to complete: its body has returned
Completing == Running /\ Top.kind = "run" /\ Top.pc = "body"

\* C15 as stated: whenever a run of a reaction completes, its dependency set is exactly
\* the set of cells read under the reaction during that run, re-entered or not.
C15_ExactDeps ==
  Completing => Elems(dependencies[Top.id]) = Top.rset

\* C15, amended: whenever a run of a reaction completes, its dependency set holds only
\* cells read under the reaction during that run, and all of them when the reaction was
\* not run again before the run finished.
C15_DepsOfLatestRun ==
  Completing =>
    /\ Elems(dependencies[Top.id]) \subseteq Top.rset
    /\ Delta(Top.id) = 1 => Elems(dependencies[Top.id]) = Top.rset

\* a conditional reader completes a run that read a and c, not re-entered
C15_Witness ==
  /\ scn = "cond"
  /\ Completing
  /\ Top.id = "e1"
  /\ call.op = "set"
  /\ call.id = "a"
  /\ Delta("e1") = 1
  /\ Top.rset = {"a", "c"}
  /\ dependencies["e1"] = <<"a", "c">>

\* the outer run of a re-entered reaction completes: it read a and c, the nested run
\* read a only, and c is no longer a dependency
C15_Dropped ==
  /\ scn = "reread"
  /\ Completing
  /\ Top.id = "e1"
  /\ Delta("e1") = 2
  /\ Top.rset = {"a", "c"}
  /\ dependencies["e1"] = <<"a">>

\* the cells the function of a computed reads (one without branches reads them all on
\* every execution)
Sources(k) == {Prog(k)[j].id : j \in {i \in 1 .. Len(Prog(k)) : Prog(k)[i].op = "get"}}

\* the computed has been constructed and its function does not throw on the current values
Settled(k) == Idle /\ k \in created /\ call # CallRecord("create", k, 0)
              /\ Yield(Prog(k), 1, 0) # Raise

\* C16: whenever no call is in progress, for every computed, dirty is true exactly when
\* the output cell's stored value differs from what the function yields on the current
\* values of the cells; so a computed whose flag is false returns the up-to-date value.
C16_Staleness ==
  \A k \in Computeds :
    Settled(k) => (dirty[k] <=> value[SignalOf(k)] # Yield(Prog(k), 1, 0))

\* the same, in the programs where no effect writes a cell the computed reads
C16_StalenessNoWriter ==
  \A k \in Computeds :
    (Settled(k) /\ scn # "guard") =>
       (dirty[k] <=> value[SignalOf(k)] # Yield(Prog(k), 1, 0))

\* the computed holds 2 while a is 2 and the flag is false
C16_Stale ==
  /\ scn = "guard"
  /\ Idle
  /\ exc = NoError
  /\ value["a"] = 2
  /\ value["ks"] = 2
  /\ ~dirty["k"]
  /\ dependencies["ke"] = <<>>

\* the internal effect of k is subscribed to exactly the cells the function read
Tracking(k) ==
  /\ Elems(dependencies[EffectOf(k)]) = Sources(k)
  /\ \A c \in Sources(k) : EffectOf(k) \in Elems(subscribers[c])

\* the function of k was executed once since the call of the innermost frame, and the
\* output cell holds what it yields
Pushed(k) == Delta(k) = 1 /\ value[SignalOf(k)] = Yield(Prog(k), 1, 0)

\* C17: whenever no call is in progress, the internal effect of a computed is subscribed
\* to exactly the cells its function read on its most recent execution; and every
\* value-changing set of one of those cells has executed the function once and pushed
\* the result into the output cell when it returns.
C17_UpstreamPush ==
  \A k \in Computeds :
    /\ Settled(k) => Tracking(k)
    /\ (Returning /\ k \in created /\ Top.id \in Sources(k)) => Pushed(k)

\* the same, in the programs where no effect writes a cell the computed reads
C17_UpstreamPushNoWriter ==
  \A k \in Computeds :
    scn # "guard" =>
      /\ Settled(k) => Tracking(k)
      /\ (Returning /\ k \in created /\ Top.id \in Sources(k)) => Pushed(k)

\* a set of a sum's second source returns, the function having run once
C17_Reached ==
  /\ scn = "sum"
  /\ Returning
  /\ Top.id = "b"
  /\ Delta("k") = 1
  /\ value["ks"] = value["a"] + value["b"]
  /\ value["ks"] = 3

\* a set of the source returns from inside the push of the computed, the function not
\* having been executed for it
C17_Skipped ==
  /\ scn = "guard"
  /\ Returning
  /\ Top.id = "a"
  /\ computing["k"]
  /\ Delta("k") = 0
  /\ dependencies["ke"] = <<>>

\* C18: whenever no recomputation of a computed is on the call stack its computing flag
\* is false, also after a recomputation left by an error of the function or of a
\* reaction run by the push; and a re-entry of the internal effect stopped by the guard
\* leaves the flag of the recomputation in progress set.
C18_GuardCleared ==
  /\ [](\A k \in Computeds : Recomputing(k) = {} => ~computing[k])
  /\ [][(Running /\ Top.kind = "wrap" /\ Top.pc = "entry" /\ computing[Top.id])
          => (computing' = computing /\ Recomputing(Top.id) # {})]_vars

\* the function of the computed threw during a recomputation started by a set, after an
\* earlier set whose push ran a reaction that threw
C18_Witness ==
  /\ scn = "kthrow"
  /\ Idle
  /\ exc = <<"Error", "k">>
  /\ call.op = "set"
  /\ call.old = 2
  /\ value["ks"] = 4
  /\ ~computing["k"]

\* a reaction run by the push of the computed threw
C18_Downstream ==
  /\ scn = "kthrow"
  /\ Idle
  /\ exc = <<"Error", "e1">>
  /\ value["ks"] = 4
  /\ ~computing["k"]

\* the runs of e in progress
RunsOf(e) == {j \in 1 .. Len(stack) : stack[j].kind = "run" /\ stack[j].id = e}

\* C19: a reaction that reads a and writes a different value into a on every run never
\* completes a run: every write runs it again from inside itself, and every top-level
\* call that runs it ends with the engine's error, raised near the stack's limit
\* however deep the stack; the reaction that writes back the value it read completes
\* every run, not re-entered.
C19_UnboundedRecursion ==
  scn = "spin" =>
    /\ ~(Completing /\ Top.id = "e1")
    /\ (Running /\ Top.kind = "fn" /\ Top.id = "e1") => Top.i <= Len(Prog("e1"))
    /\ (Idle /\ runs["e1"] > 0) =>
          /\ exc = StackError
          /\ 3 * runs["e1"] + 3 + StackSlack >= MaxDepth
    /\ (Completing /\ Top.id = "e2") => (Delta("e2") = 1 /\ Cardinality(RunsOf("e2")) = 1)
    /\ (Idle /\ runs["e1"] = 0) => exc = NoError

\* the stack is full of nested runs of the writing reaction
C19_Witness ==
  /\ scn = "spin"
  /\ Running
  /\ Len(stack) = MaxDepth
  /\ 3 * Cardinality(RunsOf("e1")) + 3 >= MaxDepth

\* the creation of the writing reaction has ended with the engine's error
C19_Exhausted ==
  /\ scn = "spin"
  /\ Idle
  /\ exc = StackError
  /\ call.op = "create"
  /\ currentEffect = None

\* the outcomes of that creation: the error lands after the unsubscription and before
\* the body's read (the reaction is left subscribed to nothing), or after the read,
\* and with either value in the cell
C19_LeftUnsubscribed ==
  /\ C19_Exhausted
  /\ value["a"] = 0
  /\ subscribers["a"] = <<>>
  /\ dependencies["e1"] = <<>>
  /\ cleanup["e1"] = <<>>

C19_LeftUnsubscribedOne ==
  /\ C19_Exhausted
  /\ value["a"] = 1
  /\ subscribers["a"] = <<>>
  /\ dependencies["e1"] = <<>>

C19_LeftSubscribed ==
  /\ C19_Exhausted
  /\ value["a"] = 0
  /\ subscribers["a"] = <<"e1">>
  /\ dependencies["e1"] = <<"a">>

C19_LeftSubscribedOne ==
  /\ C19_Exhausted
  /\ value["a"] = 1
  /\ subscribers["a"] = <<"e1">>
  /\ dependencies["e1"] = <<"a">>

\* the reaction writing back what it read has completed a run started by a set
C19_SameTerminates ==
  /\ scn = "spin"
  /\ Idle
  /\ exc = NoError
  /\ call.op = "set"
  /\ call.id = "c"
  /\ runs["e2"] = 1

\* the program has no user effect that calls set (its cleanups only log, and its
\* computed reads cells only)
NonWriting ==
  \A e \in UserEffects : \A j \in 1 .. Len(Prog(e)) : Prog(e)[j].op \notin {"setc", "seta"}

\* C20: in a program where no effect body and no cleanup calls set, every top-level set
\* terminates, with the tracker slot none, after finitely many runs: no body is executed
\* more than twice (once by the pass of the cell, once by the pass of the computed's
\* output cell), the stack stays shallow and its limit is never hit.
C20_Terminates ==
  /\ [](NonWriting =>
          /\ exc # StackError
          /\ Len(stack) <= 9
          /\ call.op = "set" => \A b \in Bodies : runs[b] <= 2)
  /\ ((NonWriting /\ call.op = "set" /\ ~Idle) ~> (Idle /\ currentEffect = None))

\* a top-level set of a cell read by a computed and by an effect that also reads the
\* computed has returned: one run of the function, two of the effect
C20_Witness ==
  /\ scn = "diamond"
  /\ NonWriting
  /\ Idle
  /\ exc = NoError
  /\ call.op = "set"
  /\ runs["k"] = 1
  /\ runs["e1"] = 2
  /\ currentEffect = None

\* the push of a recomputation started by the internal effect has returned
PushReturned == Running /\ Top.kind = "wrap" /\ Top.pc = "set"

\* C21: when the internal effect of a computed is re-run and the function's result is
\* the value the output cell already holds, the function has been executed (once) but
\* the push starts no notification pass: no reaction is run, and the output cell's
\* value and subscriber set are what they were.
C21_SilentRecompute ==
  (PushReturned /\ Top.res = Top.old) =>
    /\ runs = [Top.base EXCEPT ![Top.id] = @ + 1, ![EffectOf(Top.id)] = @ + 1]
    /\ npass = Top.pass0
    /\ value[SignalOf(Top.id)] = Top.old
    /\ subscribers[SignalOf(Top.id)] = Top.subs0

\* a set of a from 0 to 2 re-executed the function, which yields 0 again; the effect
\* subscribed to the computed was not run, the one subscribed to a was
C21_Witness ==
  /\ scn = "equal"
  /\ PushReturned
  /\ call.op = "set"
  /\ call.old = 0
  /\ value["a"] = 2
  /\ Top.res = 0
  /\ Top.old = 0
  /\ Top.subs0 = <<"e1">>
  /\ runs["k"] = 1
  /\ runs["e1"] = 0

\* the same set has returned: the reader of a has run, the reader of the computed has not
C21_Returned ==
  /\ scn = "equal"
  /\ Idle
  /\ call.op = "set"
  /\ call.v = 2
  /\ call.old = 0
  /\ runs["k"] = 1
  /\ runs["e2"] = 1
  /\ runs["e1"] = 0

\* a recomputation with a new result runs the reader of the computed
C21_Changed ==
  /\ scn = "equal"
  /\ PushReturned
  /\ Top.res = 1
  /\ Top.old = 0
  /\ runs["e1"] = 1

\* an error thrown by a client function is leaving the loop of a Signal.set: the body
\* of the subscriber dispatched last threw, or let an error through
Aborting ==
  /\ stack # <<>>
  /\ exc # NoError
  /\ exc[1] = "Error"
  /\ Top.kind = "set"
  /\ Top.pc = "loop"

\* an error thrown by a client function is leaving a run that was not re-entered
Thrown ==
  /\ stack # <<>>
  /\ exc # NoError
  /\ exc[1] = "Error"
  /\ Top.kind = "run"
  /\ Top.pc = "body"
  /\ Delta(Top.id) = 1

\* C22: when the body of a subscriber run by c.set(v) throws, the pass stops there:
\* the subscribers before the thrower in the snapshot have been run, those after it are
\* not dispatched; c keeps v and nothing is put back while the error leaves set; the
\* thrower is subscribed to exactly the cells it read before the throw and has no
\* pending cleanup; and the error reaches the caller of set.
C22_ThrowAborts ==
  /\ [](Aborting =>
          /\ Top.disp = SubSeq(Top.subs0, 1, Len(Top.disp))
          /\ \A r \in Elems(Top.disp) : Delta(r) >= 1
          /\ NonWriting => value[Top.id] = Top.v
          /\ scn = "throw" =>
                \A j \in Len(Top.disp) + 1 .. Len(Top.subs0) : Delta(Top.subs0[j]) = 0)
  /\ [](Thrown =>
          /\ Elems(dependencies[Top.id]) = Top.rset
          /\ \A c \in Cells : Top.id \in Elems(subscribers[c]) <=> c \in Top.rset
          /\ cleanup[Top.id] = <<>>)
  /\ [][Aborting => (stack' = Below /\ exc' = exc /\ UNCHANGED <<core, obs>>)]_vars
  /\ []((scn = "throw" /\ Idle /\ exc # NoError) =>
          /\ exc = <<"Error", "e2">>
          /\ call.op = "set"
          /\ value[call.id] = call.v
          /\ value["a"] = 1
          /\ Elems(dependencies["e2"]) = {"a", "b"}
          /\ cleanup["e2"] = <<>>
          /\ currentEffect = None)

\* setA(1) has thrown to its caller: the first subscriber was run, the second threw
\* after reading a and b and lost its cleanup, the third was not run
C22_Witness ==
  /\ scn = "throw"
  /\ Idle
  /\ exc = <<"Error", "e2">>
  /\ call.op = "set"
  /\ call.id = "a"
  /\ call.old = 0
  /\ value["a"] = 1
  /\ runs = [b \in Bodies |-> IF b \in {"e1", "e2"} THEN 1 ELSE 0]
  /\ "e2" \in Elems(subscribers["b"])
  /\ cleanup["e2"] = <<>>

\* the body of e is about to be executed by a run that a notification pass dispatched
Dispatched(e) ==
  /\ Running
  /\ Len(stack) > 1
  /\ Top.kind = "run"
  /\ Top.id = e
  /\ Top.pc = "unsub"
  /\ stack[Len(stack) - 1].kind = "set"

\* C23 as stated: once destroy() has returned for a reaction, no step of any set
\* executes its body (or re-subscribes it), unless run() was invoked on it since.
C23_StaysDead ==
  \A e \in destroyed : ~Dispatched(e)

\* C23, amended: a reaction whose destroy() has returned and that has not run since is
\* in no subscriber set, has no dependency, and is in the snapshot of no pass started
\* after the destroy; the only pass that still runs it is one that was in progress, with
\* the reaction in its snapshot, when destroy was called.
C23_DeadForLaterPasses ==
  /\ \A e \in destroyed :
        /\ dependencies[e] = <<>>
        /\ \A c \in Cells : e \notin Elems(subscribers[c])
        /\ Dispatched(e) => /\ e \notin stack[Len(stack) - 1].dead0
                             /\ e \in Elems(stack[Len(stack) - 1].subs0)
                             /\ e \in stack[Len(stack) - 1].absent
  /\ \A j \in 1 .. Len(stack) :
        (stack[j].kind = "set" /\ stack[j].pc = "loop")
           => Elems(stack[j].subs) \cap stack[j].dead0 = {}

\* a set made after destroy() returned has run the other subscribers of the cell, and
\* not the destroyed one
C23_Witness ==
  /\ scn = "order"
  /\ Idle
  /\ call.op = "set"
  /\ call.id = "a"
  /\ call.old # call.v
  /\ destroyed = {"e3"}
  /\ runs["e1"] = 1
  /\ runs["e3"] = 0
  /\ subscribers["a"] = <<"e1">>

\* a reaction destroyed by an earlier subscriber during a pass has been run by that
\* pass and is subscribed again
C23_Revived ==
  /\ scn = "snapshot"
  /\ Returning
  /\ Top.id = "a"
  /\ "e2" \in Top.absent
  /\ "e2" \notin destroyed
  /\ "e2" \in Elems(subscribers["a"])

====
